---- MODULE Spec2Model ----
(***************************************************************************)
(* Model of watch-rs: watch() of src/watch-rs/src/lib.rs and main() of     *)
(* src/src/main.rs, on the POSIX build (sh -c, ANSI terminal).             *)
(*                                                                         *)
(* The program is one thread; pc is its position in watch().  The          *)
(* terminal, the child process, the keyboard and the clock are the         *)
(* environment: every call into them may fail, the child returns any       *)
(* status and any bytes, keys arrive at any moment and the clock advances  *)
(* on its own.                                                             *)
(*                                                                         *)
(* stdout() is std's line-buffered writer: queue! appends the command's    *)
(* bytes to its buffer, and the buffer is written to the terminal when     *)
(* flush() is called or when the text written holds a line feed.           *)
(***************************************************************************)
EXTENDS Integers, Sequences, FiniteSets, TLC

VARIABLES
    pc,             \* position in watch() / main()
    ret,            \* what watch() returned: [kind, cause, code]
    exitStatus,     \* exit status of the process (main.rs:28-31), -1 while running
    interval,       \* argument `interval` (seconds)
    overflowChecks, \* build profile: arithmetic overflow panics (debug) or wraps
    rawMode,        \* terminal raw mode (termios)
    entered,        \* the terminal has been entered (lib.rs:58-59 succeeded)
    term,           \* terminal display state: [alt, hidden, wrap, screen]
    buf,            \* bytes queued in stdout() and not yet written
    output,         \* std::process::Output of the last child
    std_output,     \* trimmed stdout text of the current cycle
    std_error,      \* trimmed stderr text of the current cycle
    elapsed,        \* start_time.elapsed(), in seconds
    timeout,        \* the duration handed to the last poll()
    deadline,       \* elapsed time at which that poll() gives up
    pending,        \* number of input events delivered by the terminal, not yet read
    lastEvent,      \* the event returned by the last read() of this wait
    spawns,         \* child processes spawned so far
    cancelRead,     \* a cancel key has been consumed by read()
    carried,        \* the oldest event unread when the timer was started, if there
                    \* was one: "unread", "read" once the last read() returned it,
                    \* "none" otherwise
    frame,          \* commands queued by the current iteration
    final,          \* commands queued by the final render
    early,          \* commands of the current iteration written before its flush
    flushes,        \* completed flush() calls of the current iteration
    finalFlushes    \* completed flush() calls of the final render

vars == <<pc, ret, exitStatus, interval, overflowChecks, rawMode, entered, term,
          buf, output, std_output, std_error, elapsed, timeout, deadline,
          pending, lastEvent, spawns, cancelRead, carried, frame, final,
          early, flushes, finalFlushes>>

----------------------------------------------------------------------------
(* Bounds of the model *)

MaxInterval == 2
MaxSpawns == 2
MaxPending == 1
MaxLen == 4

----------------------------------------------------------------------------
(* Text: bytes, UTF-8 decoding, trimming *)

\* The bytes a child may print: LF, space, 'a', and 0xC2 0xA0 (the two bytes of
\* U+00A0, a white-space character); 0xC2 or 0xA0 alone is not valid UTF-8.
Bytes == {10, 32, 97, 194, 160}

RECURSIVE Utf8Valid(_)
Utf8Valid(b) ==
    IF b = <<>> THEN TRUE
    ELSE IF Head(b) < 128 THEN Utf8Valid(Tail(b))
    ELSE IF Head(b) >= 194 /\ Head(b) <= 223
         THEN /\ Len(b) >= 2
              /\ b[2] >= 128 /\ b[2] <= 191
              /\ Utf8Valid(Tail(Tail(b)))
    ELSE FALSE

\* String::from_utf8 on valid bytes: the sequence of code points.
RECURSIVE Utf8Decode(_)
Utf8Decode(b) ==
    IF b = <<>> THEN <<>>
    ELSE IF Head(b) < 128 THEN <<Head(b)>> \o Utf8Decode(Tail(b))
    ELSE <<(Head(b) - 192) * 64 + (b[2] - 128)>> \o Utf8Decode(Tail(Tail(b)))

\* char::is_whitespace, for the code points below 256.
IsWhitespace(c) == c \in {9, 10, 11, 12, 13, 32, 133, 160}

RECURSIVE TrimStart(_)
TrimStart(s) ==
    IF s = <<>> \/ ~IsWhitespace(Head(s)) THEN s ELSE TrimStart(Tail(s))

RECURSIVE TrimEnd(_)
TrimEnd(s) ==
    IF s = <<>> \/ ~IsWhitespace(s[Len(s)]) THEN s
    ELSE TrimEnd(SubSeq(s, 1, Len(s) - 1))

\* A trim that forgets the end of the text.
TrimStartOnly(s) == TrimStart(s)

\* str::trim
Trim(s) == TrimEnd(TrimStart(s))

\* A test that never finds the text empty.
IsEmptyNever(s) == FALSE

\* str::is_empty
IsEmpty(s) == s = <<>>

----------------------------------------------------------------------------
(* Return values *)

Running == [kind |-> "none", cause |-> "none", code |-> 0]
Ok == [kind |-> "Ok", cause |-> "cancel", code |-> 0]
Err(cause, code) == [kind |-> "Err", cause |-> cause, code |-> code]
Panic(cause) == [kind |-> "panic", cause |-> cause, code |-> 0]

----------------------------------------------------------------------------
(* Terminal commands, the terminal and the line-buffered writer *)

\* One crossterm command as queued: op, text style, literal string, captured
\* text (code points), and its numeric arguments.
W(op, style, s, t, x, y) ==
    [op |-> op, style |-> style, s |-> s, t |-> t, x |-> x, y |-> y]

Cmd(op) == W(op, "", "", <<>>, 0, 0)
PrintStr(s) == W("Print", "", s, <<>>, 0, 0)
PrintText(t) == W("Print", "", "", t, 0, 0)
PrintStyled(style, s) == W("PrintStyled", style, s, <<>>, 0, 0)
MoveTo(x, y) == W("MoveTo", "", "", <<>>, x, y)
MoveToColumn(x) == W("MoveToColumn", "", "", <<>>, x, 0)
MoveToNextLine(n) == W("MoveToNextLine", "", "", <<>>, n, 0)

\* The terminal before watch() runs: normal screen, cursor shown, wrapping on.
NormalTerm == [alt |-> FALSE, hidden |-> FALSE, wrap |-> TRUE, screen |-> <<>>]

\* What the terminal does with one command it receives.  screen is what has been
\* drawn on the active screen since it was last cleared or switched.
Apply(t, r) ==
    CASE r.op = "Clear" -> [t EXCEPT !.screen = <<>>]
      [] r.op = "EnterAlternateScreen" -> [t EXCEPT !.alt = TRUE, !.screen = <<>>]
      [] r.op = "LeaveAlternateScreen" -> [t EXCEPT !.alt = FALSE, !.screen = <<>>]
      [] r.op = "Hide" -> [t EXCEPT !.hidden = TRUE]
      [] r.op = "Show" -> [t EXCEPT !.hidden = FALSE]
      [] r.op = "EnableLineWrap" -> [t EXCEPT !.wrap = TRUE]
      [] r.op = "DisableLineWrap" -> [t EXCEPT !.wrap = FALSE]
      [] OTHER -> [t EXCEPT !.screen = Append(@, r)]

RECURSIVE ApplyAll(_, _)
ApplyAll(t, rs) ==
    IF rs = <<>> THEN t ELSE ApplyAll(Apply(t, Head(rs)), Tail(rs))

\* Index of the last line feed of a text, 0 when it has none.
LastLF(t) ==
    LET hits == {i \in 1..Len(t) : t[i] = 10}
    IN  IF hits = {} THEN 0 ELSE CHOOSE i \in hits : \A j \in hits : j <= i

\* Writing one command to the buffered writer st = [buf, term, written]: the
\* bytes are appended to the buffer; a line feed in them makes the writer write
\* out everything up to and including the last line feed.
LineWrite(st, r) ==
    LET k == LastLF(r.t)
        rest == SubSeq(r.t, k + 1, Len(r.t))
    IN  IF k = 0
        THEN [st EXCEPT !.buf = Append(@, r)]
        ELSE [buf |-> IF rest = <<>> THEN <<>> ELSE <<[r EXCEPT !.t = rest]>>,
              term |-> ApplyAll(st.term, Append(st.buf, [r EXCEPT !.t = SubSeq(r.t, 1, k)])),
              written |-> st.written + Len(st.buf) + 1]

\* queue!(stdout(), r1, r2, ...): the commands are written in order, each to
\* the writer as the one before left it.  (The one-element sets make every
\* intermediate writer a value that is computed once.)
RECURSIVE QueueAll(_, _)
QueueAll(st, rs) ==
    IF rs = <<>> THEN st
    ELSE LET after == { QueueAll(LineWrite(w, r), rest) :
                          w \in {st}, r \in {Head(rs)}, rest \in {Tail(rs)} }
         IN  CHOOSE x \in after : TRUE

Queue(rs) == QueueAll([buf |-> buf, term |-> term, written |-> 0], rs)

----------------------------------------------------------------------------
(* Values computed before the loop, and 16-bit arithmetic *)

FullWatchCommand == "cmd args"
QUIT_MSG == "Press 'q' or 'Ctrl+C' to exit"
QuitMsgLen == 29
IntervalPrefixLen == 10

RECURSIVE Digits(_)
Digits(n) == IF n < 10 THEN 1 ELSE 1 + Digits(n \div 10)

\* format!("Interval: {}s", interval).len()
IntervalMsgLen(n) == IntervalPrefixLen + Digits(n) + 1

\* The sizes the terminal may report: (columns, rows).
TermSizes == {<<10, 0>>, <<80, 24>>}

\* u16 a - b: [ok, value]; on underflow the debug build panics and the release
\* build wraps.
Sub16(a, b) ==
    IF a >= b THEN [ok |-> TRUE, value |-> a - b]
    ELSE [ok |-> ~overflowChecks, value |-> a - b + 65536]

----------------------------------------------------------------------------
(* The frame of one iteration *)

\* A header that does not clear the screen.
HeaderWritesNoClear(col) ==
    << MoveTo(0, 0), PrintStr("> "),
       PrintStyled("rapid_blink", FullWatchCommand),
       MoveToColumn(col),
       W("PrintStyled", "bold", "Interval: s", <<>>, interval, 0),
       MoveToNextLine(2) >>

\* lib.rs:62-71
HeaderWrites(col) ==
    << Cmd("Clear"), MoveTo(0, 0), PrintStr("> "),
       PrintStyled("rapid_blink", FullWatchCommand),
       MoveToColumn(col),
       W("PrintStyled", "bold", "Interval: s", <<>>, interval, 0),
       MoveToNextLine(2) >>

OutputWrites(out) ==
    << PrintStyled("bold underlined", "Output:"), MoveToNextLine(1),
       PrintText(out), MoveToNextLine(1) >>

StdErrWrites(err) ==
    << PrintStyled("bold underlined", "StdErr:"), MoveToNextLine(1),
       PrintText(err), MoveToNextLine(1) >>

FooterWrites(col, row) ==
    << MoveTo(col, row), PrintStyled("italic", QUIT_MSG) >>

\* A final render that stays on the alternate screen.
FinalWritesInPlace(out) ==
    << PrintStr("> "), PrintStr(FullWatchCommand),
       MoveToNextLine(2) >> \o OutputWrites(out)

\* lib.rs:126-136
FinalWrites(out) ==
    << Cmd("LeaveAlternateScreen"), PrintStr("> "), PrintStr(FullWatchCommand),
       MoveToNextLine(2) >> \o OutputWrites(out)

----------------------------------------------------------------------------
(* The child process and the keyboard *)

NoOutput ==
    [success |-> TRUE, hasCode |-> TRUE, code |-> 0, stdout |-> <<>>, stderr |-> <<>>]

\* ExitStatus of a child: exit code 0, exit code 1 or 2, or ended by a signal
\* (success() is false and code() is None).
Statuses ==
    { [success |-> TRUE, hasCode |-> TRUE, code |-> 0],
      [success |-> FALSE, hasCode |-> TRUE, code |-> 1],
      [success |-> FALSE, hasCode |-> TRUE, code |-> 2],
      [success |-> FALSE, hasCode |-> FALSE, code |-> 0] }

\* The captured <<stdout, stderr>> bytes of the children of the main
\* specification: nothing at all, one padded line, white space only on stderr,
\* two lines on either stream, and bytes that are not UTF-8 on either stream.
ChildOutputs ==
    { << <<>>, <<>> >>,
      << <<32, 97, 10>>, <<>> >>,
      << <<97>>, <<10, 32>> >>,
      << <<>>, <<32, 97, 10>> >>,
      << <<97, 10, 97>>, <<97>> >>,
      << <<97>>, <<97, 10, 97>> >>,
      << <<194>>, <<>> >>,
      << <<97>>, <<160>> >> }

\* What a child that fails has printed is never looked at.
FailedOutputs == { << <<>>, <<>> >>, << <<97>>, <<97>> >> }

OutputOf(st, oe) ==
    [success |-> st.success, hasCode |-> st.hasCode, code |-> st.code,
     stdout |-> oe[1], stderr |-> oe[2]]

Outputs ==
    { OutputOf(st, oe) : st \in {x \in Statuses : x.success}, oe \in ChildOutputs }
    \cup
    { OutputOf(st, oe) : st \in {x \in Statuses : ~x.success}, oe \in FailedOutputs }

\* crossterm events: key events with code and modifiers, and a non-key event.
KeyEvent(code, mods) == [type |-> "Key", code |-> code, mods |-> mods]
NoEvent == [type |-> "None", code |-> "", mods |-> {}]
Events ==
    { KeyEvent("q", {}), KeyEvent("q", {"ALT"}),
      KeyEvent("c", {"CONTROL"}), KeyEvent("c", {"CONTROL", "ALT"}),
      KeyEvent("c", {}), KeyEvent("x", {}),
      [type |-> "Resize", code |-> "", mods |-> {}] }

\* A guard that asks only whether control is among the modifiers.
IsCancelKeyAnyControl(ev) ==
    /\ ev.type = "Key"
    /\ \/ ev.code = "q"
       \/ ev.code = "c" /\ "CONTROL" \in ev.mods

\* The guard of the match arm at lib.rs:120-123.
IsCancelKey(ev) ==
    /\ ev.type = "Key"
    /\ \/ ev.code = "q"
       \/ ev.code = "c" /\ ev.mods = {"CONTROL"}

\* A check that takes every status for success.
StatusSuccessAlways(o) == TRUE

\* ExitStatus::success()
StatusSuccess(o) == o.success

\* A main() that drops the result of watch().
ProcessExitZero(r) == 0

\* The process exit status main() gives for watch()'s result; a panic ends the
\* process with status 101.
ProcessExit(r) ==
    CASE r.kind = "Ok" -> 0
      [] r.kind = "Err" -> 1
      [] OTHER -> 101

----------------------------------------------------------------------------
(* Initial state *)

Init ==
    /\ pc = "enable_raw"
    /\ ret = Running
    /\ exitStatus = -1
    /\ interval \in 0..MaxInterval
    /\ overflowChecks \in BOOLEAN
    /\ rawMode = FALSE
    /\ entered = FALSE
    /\ term = NormalTerm
    /\ buf = <<>>
    /\ output = NoOutput
    /\ std_output = <<>>
    /\ std_error = <<>>
    /\ elapsed = 0
    /\ timeout = 0
    /\ deadline = 0
    /\ pending = 0
    /\ lastEvent = NoEvent
    /\ spawns = 0
    /\ cancelRead = FALSE
    /\ carried = "none"
    /\ frame = <<>>
    /\ final = <<>>
    /\ early = 0
    /\ flushes = 0
    /\ finalFlushes = 0

----------------------------------------------------------------------------
(* Variable groups *)

build == <<interval, overflowChecks>>
tty == <<rawMode, entered>>
out == <<term, buf>>
child == <<output, std_output, std_error, spawns>>
clock == <<elapsed, timeout, deadline>>
input == <<pending, lastEvent, cancelRead, carried>>
render == <<frame, early, flushes>>
fin == <<final, finalFlushes>>

\* The locals of watch() go out of scope when it is left.
DropLocals ==
    /\ output' = NoOutput
    /\ std_output' = <<>>
    /\ std_error' = <<>>
    /\ elapsed' = 0
    /\ timeout' = 0
    /\ deadline' = 0
    /\ lastEvent' = NoEvent
    /\ carried' = "none"
    /\ frame' = <<>>
    /\ final' = <<>>
    /\ early' = 0

\* watch() stops here with result r: an early return through `?`, a return
\* statement, or a panic.  Nothing else is done on the way out: the terminal,
\* the bytes still queued in stdout() and the unread input stay as they are.
\* main() hands the result on as the result of the process.
Return(r) ==
    /\ pc' = "done"
    /\ ret' = r
    /\ exitStatus' = ProcessExit(r)
    /\ DropLocals
    /\ UNCHANGED <<build, tty, out, spawns, pending, cancelRead, flushes, finalFlushes>>

IoError == Return(Err("io", 0))

----------------------------------------------------------------------------
(* Entering the terminal: lib.rs:58-59 *)

\* lib.rs:58
EnableRawMode ==
    /\ pc = "enable_raw"
    /\ \/ /\ rawMode' = TRUE
          /\ pc' = "enter"
          /\ UNCHANGED <<ret, exitStatus, build, entered, out, child, clock, input,
                         render, fin>>
       \/ IoError

\* An entry whose failure is not looked at.
EnterScreenUnchecked ==
    /\ pc = "enter"
    /\ \/ /\ term' = ApplyAll(term, buf \o << Cmd("Hide"), Cmd("EnterAlternateScreen"),
                                            Cmd("EnableLineWrap") >>)
          /\ buf' = <<>>
          /\ entered' = TRUE
          /\ pc' = "header"
          /\ UNCHANGED <<ret, exitStatus, build, rawMode, child, clock, input, render, fin>>
       \/ /\ pc' = "header"
          /\ UNCHANGED <<ret, exitStatus, build, tty, out, child, clock, input, render, fin>>

\* lib.rs:59
EnterScreen ==
    /\ pc = "enter"
    /\ \/ /\ term' = ApplyAll(term, buf \o << Cmd("Hide"), Cmd("EnterAlternateScreen"),
                                            Cmd("EnableLineWrap") >>)
          /\ buf' = <<>>
          /\ entered' = TRUE
          /\ pc' = "header"
          /\ UNCHANGED <<ret, exitStatus, build, rawMode, child, clock, input, render, fin>>
       \/ IoError

----------------------------------------------------------------------------
(* One iteration: lib.rs:60-113 *)

\* lib.rs:62-71: the header is queued; the column comes from a fresh size().
\* The locals of the previous pass of the loop body are gone.
QueueHeader ==
    /\ pc = "header"
    /\ \/ \E sz \in TermSizes :
            LET col == Sub16(sz[1], IntervalMsgLen(interval))
                st == Queue(HeaderWrites(col.value))
            IN  IF col.ok
                THEN /\ buf' = st.buf
                     /\ term' = st.term
                     /\ frame' = HeaderWrites(col.value)
                     /\ early' = st.written
                     /\ flushes' = 0
                     /\ output' = NoOutput
                     /\ std_output' = <<>>
                     /\ std_error' = <<>>
                     /\ elapsed' = 0
                     /\ timeout' = 0
                     /\ deadline' = 0
                     /\ lastEvent' = NoEvent
                     /\ carried' = "none"
                     /\ pc' = "execute"
                     /\ UNCHANGED <<ret, exitStatus, build, tty, spawns, pending, cancelRead, fin>>
                ELSE Return(Panic("overflow"))
       \/ Return(Panic("size"))
       \/ IoError

\* An execution that a key press ends.
ExecuteInterruptible ==
    /\ pc = "execute"
    /\ spawns < MaxSpawns
    /\ \/ \E o \in Outputs :
            /\ output' = o
            /\ spawns' = spawns + 1
            /\ pc' = "check"
            /\ UNCHANGED <<ret, exitStatus, build, tty, out, std_output, std_error, clock,
                           input, render, fin>>
       \/ /\ pending > 0
          /\ pending' = pending - 1
          /\ cancelRead' = TRUE
          /\ spawns' = spawns + 1
          /\ pc' = "final"
          /\ UNCHANGED <<ret, exitStatus, build, tty, out, output, std_output, std_error,
                         clock, lastEvent, carried, render, fin>>
       \/ Return(Err("spawn", 0))

\* lib.rs:72-75: the child is spawned and waited for.  (MaxSpawns caps the
\* number of iterations of the model.)
Execute ==
    /\ pc = "execute"
    /\ spawns < MaxSpawns
    /\ \/ \E o \in Outputs :
            /\ output' = o
            /\ spawns' = spawns + 1
            /\ pc' = "check"
            /\ UNCHANGED <<ret, exitStatus, build, tty, out, std_output, std_error, clock,
                           input, render, fin>>
       \/ Return(Err("spawn", 0))

\* lib.rs:77-82
FailureCheck ==
    /\ pc = "check"
    /\ IF ~StatusSuccess(output)
       THEN IF output.hasCode
            THEN Return(Err("exit", output.code))
            ELSE Return(Panic("signal"))
       ELSE /\ pc' = "decode"
            /\ UNCHANGED <<ret, exitStatus, build, tty, out, child, clock, input, render, fin>>

\* lib.rs:84-87
Decode ==
    /\ pc = "decode"
    /\ IF Utf8Valid(output.stdout) /\ Utf8Valid(output.stderr)
       THEN /\ std_output' = Trim(Utf8Decode(output.stdout))
            /\ std_error' = Trim(Utf8Decode(output.stderr))
            /\ pc' = "body"
            /\ UNCHANGED <<ret, exitStatus, build, tty, out, output, spawns, clock, input,
                           render, fin>>
       ELSE Return(Panic("decode"))

\* lib.rs:90-96
QueueOutput ==
    /\ pc = "body"
    /\ \/ LET st == Queue(OutputWrites(std_output))
          IN  /\ buf' = st.buf
              /\ term' = st.term
              /\ frame' = frame \o OutputWrites(std_output)
              /\ early' = early + st.written
              /\ pc' = "stderr"
              /\ UNCHANGED <<ret, exitStatus, build, tty, child, clock, input, flushes, fin>>
       \/ IoError

\* lib.rs:97-105
QueueStdErr ==
    /\ pc = "stderr"
    /\ IF ~IsEmpty(std_error)
       THEN \/ LET st == Queue(StdErrWrites(std_error))
               IN  /\ buf' = st.buf
                   /\ term' = st.term
                   /\ frame' = frame \o StdErrWrites(std_error)
                   /\ early' = early + st.written
                   /\ pc' = "footer"
                   /\ UNCHANGED <<ret, exitStatus, build, tty, child, clock, input, flushes, fin>>
            \/ IoError
       ELSE /\ pc' = "footer"
            /\ UNCHANGED <<ret, exitStatus, build, tty, out, child, clock, input, render, fin>>

\* lib.rs:106-110: size() is asked twice, once for each coordinate.
QueueFooter ==
    /\ pc = "footer"
    /\ \/ \E sx \in TermSizes, sy \in TermSizes :
            LET col == Sub16(sx[1], QuitMsgLen)
                row == Sub16(sy[2], 1)
                st == Queue(FooterWrites(col.value, row.value))
            IN  IF col.ok /\ row.ok
                THEN /\ buf' = st.buf
                     /\ term' = st.term
                     /\ frame' = frame \o FooterWrites(col.value, row.value)
                     /\ early' = early + st.written
                     /\ pc' = "flush"
                     /\ UNCHANGED <<ret, exitStatus, build, tty, child, clock, input, flushes, fin>>
                ELSE Return(Panic("overflow"))
       \/ Return(Panic("size"))
       \/ IoError

\* lib.rs:113: everything queued is written; a flush that fails writes nothing.
Flush ==
    /\ pc = "flush"
    /\ \/ /\ term' = ApplyAll(term, buf)
          /\ buf' = <<>>
          /\ flushes' = flushes + 1
          /\ pc' = "start_timer"
          /\ UNCHANGED <<ret, exitStatus, build, tty, child, clock, input, frame, early, fin>>
       \/ IoError

----------------------------------------------------------------------------
(* The wait: lib.rs:115-152 *)

\* lib.rs:116: the events unread at this moment arrived while the frame was
\* rendered or the child was running.
StartTimer ==
    /\ pc = "start_timer"
    /\ elapsed' = 0
    /\ carried' = IF pending > 0 THEN "unread" ELSE "none"
    /\ pc' = "wait_test"
    /\ UNCHANGED <<ret, exitStatus, build, tty, out, child, timeout, deadline, pending,
                   lastEvent, cancelRead, render, fin>>

\* A loop test that lets the wait begin when no time is left.
WaitTestInclusive ==
    /\ pc = "wait_test"
    /\ pc' = IF elapsed <= interval THEN "poll_arg" ELSE "header"
    /\ UNCHANGED <<ret, exitStatus, build, tty, out, child, clock, input, render, fin>>

\* lib.rs:117: while start_time.elapsed() < interval_duration
WaitTest ==
    /\ pc = "wait_test"
    /\ pc' = IF elapsed < interval THEN "poll_arg" ELSE "header"
    /\ UNCHANGED <<ret, exitStatus, build, tty, out, child, clock, input, render, fin>>

\* lib.rs:118: interval_duration - start_time.elapsed(), with elapsed read
\* again; Duration subtraction panics when the result would be negative.
PollArg ==
    /\ pc = "poll_arg"
    /\ IF elapsed <= interval
       THEN /\ timeout' = interval - elapsed
            /\ deadline' = elapsed + (interval - elapsed)
            /\ pc' = "poll"
            /\ UNCHANGED <<ret, exitStatus, build, tty, out, child, elapsed, input, render, fin>>
       ELSE Return(Panic("duration"))

\* A poll that gives up at its deadline though an event is unread.
PollMissesEvent ==
    /\ pc = "poll"
    /\ \/ /\ pending > 0
          /\ pc' = "read"
          /\ UNCHANGED <<ret, exitStatus, build, tty, out, child, clock, input, render, fin>>
       \/ /\ elapsed >= deadline
          /\ pc' = "wait_test"
          /\ timeout' = 0
          /\ deadline' = 0
          /\ UNCHANGED <<ret, exitStatus, build, tty, out, child, elapsed, input, render, fin>>
       \/ IoError

\* lib.rs:118: poll(timeout) answers true as soon as an event is available and
\* false once the timeout has passed.
Poll ==
    /\ pc = "poll"
    /\ \/ /\ pending > 0
          /\ pc' = "read"
          /\ UNCHANGED <<ret, exitStatus, build, tty, out, child, clock, input, render, fin>>
       \/ /\ pending = 0
          /\ elapsed >= deadline
          /\ pc' = "wait_test"
          /\ timeout' = 0
          /\ deadline' = 0
          /\ UNCHANGED <<ret, exitStatus, build, tty, out, child, elapsed, input, render, fin>>
       \/ IoError

\* lib.rs:119-124 and 149: read() and the match on the event: read() returns
\* the oldest unread event.  What that event is shows only here.
Read ==
    /\ pc = "read"
    /\ \/ /\ pending > 0
          /\ \E ev \in Events :
                /\ lastEvent' = ev
                /\ cancelRead' = IsCancelKey(ev)
                /\ pc' = IF IsCancelKey(ev) THEN "final" ELSE "wait_test"
          /\ pending' = pending - 1
          /\ carried' = IF carried = "unread" THEN "read" ELSE "none"
          /\ timeout' = 0
          /\ deadline' = 0
          /\ UNCHANGED <<ret, exitStatus, build, tty, out, child, elapsed, render, fin>>
       \/ IoError

\* lib.rs:126-136
QueueFinal ==
    /\ pc = "final"
    /\ \/ LET st == Queue(FinalWrites(std_output))
          IN  /\ buf' = st.buf
              /\ term' = st.term
              /\ final' = FinalWrites(std_output)
              /\ pc' = "final_stderr"
              /\ UNCHANGED <<ret, exitStatus, build, tty, child, clock, input, render, finalFlushes>>
       \/ IoError

\* lib.rs:137-145
QueueFinalStdErr ==
    /\ pc = "final_stderr"
    /\ IF ~IsEmpty(std_error)
       THEN \/ LET st == Queue(StdErrWrites(std_error))
               IN  /\ buf' = st.buf
                   /\ term' = st.term
                   /\ final' = final \o StdErrWrites(std_error)
                   /\ pc' = "final_flush"
                   /\ UNCHANGED <<ret, exitStatus, build, tty, child, clock, input, render,
                                  finalFlushes>>
            \/ IoError
       ELSE /\ pc' = "final_flush"
            /\ UNCHANGED <<ret, exitStatus, build, tty, out, child, clock, input, render, fin>>

\* A final flush that is not followed by `break`.
FinalFlushNoBreak ==
    /\ pc = "final_flush"
    /\ \/ /\ term' = ApplyAll(term, buf)
          /\ buf' = <<>>
          /\ finalFlushes' = finalFlushes + 1
          /\ pc' = "wait_test"
          /\ UNCHANGED <<ret, exitStatus, build, tty, child, clock, input, render, final>>
       \/ IoError

\* lib.rs:146-147
FinalFlush ==
    /\ pc = "final_flush"
    /\ \/ /\ term' = ApplyAll(term, buf)
          /\ buf' = <<>>
          /\ finalFlushes' = finalFlushes + 1
          /\ pc' = "restore"
          /\ UNCHANGED <<ret, exitStatus, build, tty, child, clock, input, render, final>>
       \/ IoError

----------------------------------------------------------------------------
(* Leaving: lib.rs:154-155 *)

\* lib.rs:154
Restore ==
    /\ pc = "restore"
    /\ \/ /\ term' = ApplyAll(term, buf \o << Cmd("Show"), Cmd("DisableLineWrap") >>)
          /\ buf' = <<>>
          /\ pc' = "disable_raw"
          /\ UNCHANGED <<ret, exitStatus, build, tty, child, clock, input, render, fin>>
       \/ IoError

\* lib.rs:155: the result of disable_raw_mode() is the result of watch().
DisableRawMode ==
    /\ pc = "disable_raw"
    /\ \/ /\ rawMode' = FALSE
          /\ ret' = Ok
          /\ exitStatus' = ProcessExit(Ok)
          /\ pc' = "done"
          /\ DropLocals
          /\ UNCHANGED <<build, entered, out, spawns, pending, cancelRead, flushes,
                         finalFlushes>>
       \/ IoError

----------------------------------------------------------------------------
(* The environment *)

WaitPcs == {"wait_test", "poll_arg", "poll", "read"}

\* The clock advances while the timer of lib.rs:116 is running.  (Elapsed time
\* beyond interval + 1 is not told apart.)
Tick ==
    /\ pc \in WaitPcs
    /\ elapsed <= interval
    /\ elapsed' = elapsed + 1
    /\ UNCHANGED <<pc, ret, exitStatus, build, tty, out, child, timeout, deadline, input,
                   render, fin>>

\* An input event arrives at the terminal, at any moment of the run, and is
\* kept there until it is read.  (MaxPending caps the events kept unread.)
KeyPress ==
    /\ pc # "done"
    /\ pending < MaxPending
    /\ pending' = pending + 1
    /\ UNCHANGED <<pc, ret, exitStatus, build, tty, out, child, clock, lastEvent, cancelRead,
                   carried, render, fin>>

----------------------------------------------------------------------------
(* Specification *)

Next ==
    \/ EnableRawMode
    \/ EnterScreen
    \/ QueueHeader
    \/ Execute
    \/ FailureCheck
    \/ Decode
    \/ QueueOutput
    \/ QueueStdErr
    \/ QueueFooter
    \/ Flush
    \/ StartTimer
    \/ WaitTest
    \/ PollArg
    \/ Poll
    \/ Read
    \/ QueueFinal
    \/ QueueFinalStdErr
    \/ FinalFlush
    \/ Restore
    \/ DisableRawMode
    \/ Tick
    \/ KeyPress

Spec == Init /\ [][Next]_vars

----------------------------------------------------------------------------
(* Capture and body render on every short byte string *)

RECURSIVE ByteStrings(_)
ByteStrings(n) ==
    IF n = 0 THEN { <<>> }
    ELSE LET shorter == ByteStrings(n - 1)
         IN  shorter \cup { Append(b, x) : b \in shorter, x \in Bytes }

SuccessStatus == [success |-> TRUE, hasCode |-> TRUE, code |-> 0]

\* The state in which the first child has just ended with status 0, on a
\* terminal 80 columns wide: one stream holds any string of at most MaxLen
\* bytes, the other one of three fixed strings.
InitTrim ==
    /\ pc = "decode"
    /\ ret = Running
    /\ exitStatus = -1
    /\ interval = 1
    /\ overflowChecks \in BOOLEAN
    /\ rawMode = TRUE
    /\ entered = TRUE
    /\ term = [alt |-> TRUE, hidden |-> TRUE, wrap |-> TRUE, screen |-> <<>>]
    /\ buf = HeaderWrites(80 - IntervalMsgLen(1))
    /\ \E b \in ByteStrings(MaxLen), c \in { <<>>, <<32, 97, 10>>, <<10>> } :
          \/ output = OutputOf(SuccessStatus, <<b, c>>)
          \/ output = OutputOf(SuccessStatus, <<c, b>>)
    /\ std_output = <<>>
    /\ std_error = <<>>
    /\ elapsed = 0
    /\ timeout = 0
    /\ deadline = 0
    /\ pending = 0
    /\ lastEvent = NoEvent
    /\ spawns = 1
    /\ cancelRead = FALSE
    /\ carried = "none"
    /\ frame = HeaderWrites(80 - IntervalMsgLen(1))
    /\ final = <<>>
    /\ early = 0
    /\ flushes = 0
    /\ finalFlushes = 0

NextTrim ==
    \/ Decode
    \/ QueueOutput
    \/ QueueStdErr
    \/ QueueFooter
    \/ Flush

SpecTrim == InitTrim /\ [][NextTrim]_vars

----------------------------------------------------------------------------
(* Vocabulary of the properties *)

FinalPcs == {"final", "final_stderr", "final_flush", "restore", "disable_raw"}
BeforeFlushPcs == {"execute", "check", "decode", "body", "stderr", "footer", "flush"}
ShownPcs == {"start_timer"} \cup WaitPcs

Restored == ~rawMode /\ ~term.alt /\ ~term.hidden

HasLabel(seq, l) ==
    \E i \in 1..Len(seq) : seq[i].op = "PrintStyled" /\ seq[i].s = l

\* The text printed under a label: the second command after it.
BlockOf(seq, l) ==
    LET i == CHOOSE j \in 1..Len(seq) : seq[j].op = "PrintStyled" /\ seq[j].s = l
    IN  seq[i + 2].t

\* Some character of the decoded bytes is not white space.
NonBlank(bytes) ==
    \E i \in 1..Len(Utf8Decode(bytes)) : ~IsWhitespace(Utf8Decode(bytes)[i])

\* r is s without its leading and trailing white space, everything between the
\* first and the last character that is not white space kept as it is.
IsTrimOf(r, s) ==
    \E i \in 0..Len(s) : \E j \in i..Len(s) :
        /\ r = SubSeq(s, i + 1, j)
        /\ \A k \in 1..i : IsWhitespace(s[k])
        /\ \A k \in (j + 1)..Len(s) : IsWhitespace(s[k])
        /\ r # <<>> => ~IsWhitespace(r[1]) /\ ~IsWhitespace(r[Len(r)])

\* A body as it should be for the captured stderr: Output: always, StdErr:
\* exactly when some captured character is not white space.
BodyLabels(seq) ==
    /\ HasLabel(seq, "Output:")
    /\ HasLabel(seq, "StdErr:") <=> NonBlank(output.stderr)

\* How far the way out has got, from the final render to the return.
Rank(p) ==
    CASE p = "final" -> 1
      [] p = "final_stderr" -> 2
      [] p = "final_flush" -> 3
      [] p = "restore" -> 4
      [] p = "disable_raw" -> 5
      [] p = "done" -> 6
      [] OTHER -> 0

\* How many times a label has been drawn.
LabelCount(seq, l) ==
    Cardinality({i \in 1..Len(seq) : seq[i].op = "PrintStyled" /\ seq[i].s = l})

\* The commands of one whole frame, written out from lib.rs:62-110 as a function
\* of the interval, the three sizes reported and the child's output alone.
RenderOf(n, sz, sx, sy, o) ==
    << W("Clear", "", "", <<>>, 0, 0),
       W("MoveTo", "", "", <<>>, 0, 0),
       W("Print", "", "> ", <<>>, 0, 0),
       W("PrintStyled", "rapid_blink", "cmd args", <<>>, 0, 0),
       W("MoveToColumn", "", "", <<>>, Sub16(sz[1], IntervalMsgLen(n)).value, 0),
       W("PrintStyled", "bold", "Interval: s", <<>>, n, 0),
       W("MoveToNextLine", "", "", <<>>, 2, 0),
       W("PrintStyled", "bold underlined", "Output:", <<>>, 0, 0),
       W("MoveToNextLine", "", "", <<>>, 1, 0),
       W("Print", "", "", Trim(Utf8Decode(o.stdout)), 0, 0),
       W("MoveToNextLine", "", "", <<>>, 1, 0) >>
    \o (IF NonBlank(o.stderr)
        THEN << W("PrintStyled", "bold underlined", "StdErr:", <<>>, 0, 0),
                W("MoveToNextLine", "", "", <<>>, 1, 0),
                W("Print", "", "", Trim(Utf8Decode(o.stderr)), 0, 0),
                W("MoveToNextLine", "", "", <<>>, 1, 0) >>
        ELSE <<>>)
    \o << W("MoveTo", "", "", <<>>, Sub16(sx[1], QuitMsgLen).value, Sub16(sy[2], 1).value),
          W("PrintStyled", "italic", "Press 'q' or 'Ctrl+C' to exit", <<>>, 0, 0) >>

\* The body of a render: everything from the Output: label on.
BodyOf(seq) ==
    LET i == CHOOSE j \in 1..Len(seq) : seq[j].op = "PrintStyled" /\ seq[j].s = "Output:"
    IN  SubSeq(seq, i, Len(seq))

\* The events that cancel: the key q, and the key c with control alone.
CancelEvents ==
    { KeyEvent("q", {}), KeyEvent("q", {"ALT"}), KeyEvent("c", {"CONTROL"}) }

----------------------------------------------------------------------------
(* Claims *)

\* C1: on every path by which watch() stops after the terminal has been
\* entered, the terminal is restored before control leaves watch(): no
\* terminated state has raw mode or the alternate screen active or the cursor
\* hidden.  (Stated as claimed; the code leaves through `?`, return and panic
\* without restoring.)
C1_RestoredOnEveryExit ==
    (pc = "done" /\ entered) => Restored

\* C2: once a q or control+c key event has been consumed, watch() returns with
\* raw mode disabled, the alternate screen left and the cursor shown.  (Stated
\* as claimed; a terminal write that fails after the key was read leaves
\* through `?` without restoring.)
C2_CancelRestoresTerminal ==
    (pc = "done" /\ cancelRead) => Restored

\* C3: when the child exits with a non-zero status k, watch() stops at once
\* with an error carrying k: nothing of the body of that cycle has been queued,
\* nothing is queued, written or flushed by the failing step, the wait is not
\* entered, and no child is spawned afterwards.
C3_NonZeroExitIsFatal ==
    /\ [](pc = "check" => flushes = 0 /\ ~HasLabel(frame, "Output:"))
    /\ [][ (pc = "check" /\ pc' # "check" /\ ~output.success /\ output.hasCode)
             => /\ pc' = "done"
                /\ ret' = Err("exit", output.code)
                /\ exitStatus' # 0
                /\ buf' = buf /\ term' = term
                /\ flushes' = flushes
                /\ spawns' = spawns ]_vars
    /\ [][ pc = "done" => pc' = "done" /\ spawns' = spawns ]_vars

C3_Witness ==
    pc = "done" /\ ret = Err("exit", 2) /\ spawns = 2 /\ flushes = 0

\* C4: for every interval >= 1, nothing an iteration queues is visible before
\* its flush, and after the flush exactly one flush has happened and nothing is
\* left queued.  (Stated as claimed; a line feed inside the captured text makes
\* the line-buffered writer write the frame so far.)
C4_FrameVisibleOnlyAtFlush ==
    interval >= 1 =>
        /\ pc \in BeforeFlushPcs => early = 0
        /\ pc \in ShownPcs => flushes = 1 /\ buf = <<>>

\* C5 as claimed: every run in which a cancel key was read ends with exactly
\* one completed final flush.
C5_ExactlyOneFinalRender ==
    (pc = "done" /\ cancelRead) => finalFlushes = 1

\* C5 as amended: a cancel key that is read ends the wait at once, whatever is
\* left of the interval: from then on the program only runs the final render and
\* the way out, each step is enabled and moves forward, no child is spawned,
\* there is never a second final flush, a run that returns Ok has flushed the
\* final render exactly once, and a run that has not can only have ended with a
\* terminal error.
C5_CancelEndsTheWait ==
    /\ [](cancelRead => pc \in FinalPcs \cup {"done"})
    /\ [](finalFlushes <= 1)
    /\ []((pc = "done" /\ cancelRead /\ ret.kind = "Ok") => finalFlushes = 1)
    /\ []((pc = "done" /\ cancelRead /\ finalFlushes = 0) => ret = Err("io", 0))
    /\ []((cancelRead /\ pc # "done")
            => ENABLED (QueueFinal \/ QueueFinalStdErr \/ FinalFlush \/ Restore
                        \/ DisableRawMode))
    /\ [][ (~cancelRead /\ cancelRead')
             => pc = "read" /\ pc' = "final" /\ elapsed' = elapsed ]_vars
    /\ [][ cancelRead
             => spawns' = spawns /\ (pc' # pc => Rank(pc') > Rank(pc)) ]_vars

C5_Witness ==
    /\ pc = "restore" /\ cancelRead /\ finalFlushes = 1
    /\ elapsed < interval /\ pending = 0 /\ spawns = 1

\* C6: an event that is read cancels exactly when it is the key q or the key c
\* with control alone; any other event leaves the loop waiting, writes nothing,
\* leaves the timer as it is, and the next poll is armed with what is left of
\* the interval since the timer was started.
C6_OnlyCancelKeysCancel ==
    /\ [][ (pc = "read" /\ pc' \in {"final", "wait_test"})
             => /\ pc' = "final" <=> lastEvent' \in CancelEvents
                /\ pc' = "wait_test"
                     => /\ buf' = buf /\ term' = term
                        /\ frame' = frame /\ final' = final
                        /\ elapsed' = elapsed ]_vars
    /\ [][ (pc = "poll_arg" /\ pc' = "poll")
             => timeout' = interval - elapsed /\ elapsed' = elapsed ]_vars
    /\ [][ (pc \in WaitPcs /\ pc' \in WaitPcs) => elapsed' >= elapsed ]_vars
    /\ [](pc = "poll" => deadline = interval /\ timeout <= interval)

C6_Witness ==
    /\ pc = "poll" /\ lastEvent = KeyEvent("c", {"CONTROL", "ALT"})
    /\ interval = 2 /\ timeout = 1

\* C7: the process ends with status 0 exactly when watch() returned Ok; Ok is
\* returned only after a cancel key was read; a run in which a cancel key was
\* read fails only with a terminal error; and a failed command, a failed spawn
\* and every terminal or I/O error end the process with a non-zero status.
C7_ResultMatchesCause ==
    /\ pc # "done" => exitStatus = -1 /\ ret = Running
    /\ pc = "done" =>
        /\ exitStatus = 0 <=> ret.kind = "Ok"
        /\ ret.kind = "Ok" => cancelRead /\ ret.cause = "cancel"
        /\ (cancelRead /\ ret.kind # "Ok") => ret = Err("io", 0)
        /\ ret.cause \in {"exit", "signal", "spawn", "io", "size", "decode",
                          "overflow", "duration"}
             => ret.kind \in {"Err", "panic"} /\ exitStatus # 0

C7_Witness ==
    pc = "done" /\ cancelRead /\ ret.kind = "Ok" /\ exitStatus = 0

\* C8: in every completed body, of the frame and of the final render, as queued
\* and as shown after its flush, the Output: label is present and the StdErr:
\* label is present exactly when the captured stderr holds a character that is not
\* white space.
C8_StdErrOnlyWhenNonEmpty ==
    /\ pc \in {"flush"} \cup ShownPcs => BodyLabels(frame)
    /\ pc \in ShownPcs => BodyLabels(term.screen)
    /\ pc \in {"final_flush", "restore", "disable_raw"} => BodyLabels(final)
    /\ pc \in {"restore", "disable_raw"} => BodyLabels(term.screen)

C8_Witness ==
    /\ pc = "restore" /\ output.stderr = <<10, 32>>
    /\ HasLabel(term.screen, "Output:") /\ ~HasLabel(term.screen, "StdErr:")

\* C9: the block rendered under Output: is the captured stdout without its
\* leading and trailing white space and with everything between kept, and the
\* block under StdErr: is the same of the captured stderr, each whatever the
\* other stream holds.
C9_BlocksAreTrimmed ==
    /\ pc \in {"body", "stderr", "footer", "flush", "start_timer"}
         => /\ IsTrimOf(std_output, Utf8Decode(output.stdout))
            /\ IsTrimOf(std_error, Utf8Decode(output.stderr))
    /\ pc \in {"stderr", "footer", "flush", "start_timer"}
         => IsTrimOf(BlockOf(frame, "Output:"), Utf8Decode(output.stdout))
    /\ (pc \in {"footer", "flush", "start_timer"} /\ HasLabel(frame, "StdErr:"))
         => IsTrimOf(BlockOf(frame, "StdErr:"), Utf8Decode(output.stderr))

C9_Witness ==
    /\ pc = "start_timer"
    /\ output.stdout = <<10, 97, 32, 97>>
    /\ BlockOf(term.screen, "Output:") = <<97, 32, 97>>
    /\ output.stderr = <<32, 97, 10>>
    /\ BlockOf(term.screen, "StdErr:") = <<97>>

\* C10: bytes that are not valid text end the session with an error returned
\* to the caller, after the terminal has been restored.  (Stated as claimed; the
\* code panics in expect() and restores nothing.)
C10_DecodeFailureIsReturned ==
    (pc = "done" /\ ret.cause = "decode") => (ret.kind = "Err" /\ Restored)

\* C11: when enabling raw mode or entering the screen fails, watch() returns
\* that error before any iteration: every position of the loop is reached only
\* with raw mode on and the screen entered, and a run that ends without the
\* terminal entered has returned the I/O error with no child spawned, nothing
\* queued, nothing drawn and nothing flushed.
C11_EnterFailureBeforeLoop ==
    /\ pc \notin {"enable_raw", "enter", "done"} => entered /\ rawMode
    /\ (spawns > 0 \/ frame # <<>> \/ buf # <<>> \/ term.screen # <<>>) => entered
    /\ (pc = "done" /\ ~entered)
         => /\ ret = Err("io", 0) /\ exitStatus = 1
            /\ spawns = 0 /\ flushes = 0
            /\ buf = <<>> /\ term.screen = <<>> /\ ~term.alt /\ ~term.hidden

C11_Witness ==
    pc = "done" /\ rawMode /\ ~entered /\ ret = Err("io", 0) /\ spawns = 0

\* C12: the commands queued by an iteration are a function of the interval, the
\* sizes the terminal reported and the child's output, and of nothing else: in
\* the first iteration and in every later one the complete frame is RenderOf of
\* these, an iteration starts with nothing queued, and the screen after the
\* flush holds one frame only, whatever was shown before.
C12_RenderIsAFunction ==
    /\ pc = "header" => buf = <<>>
    /\ pc \in {"flush"} \cup ShownPcs
         => \E sz \in TermSizes, sx \in TermSizes, sy \in TermSizes :
                frame = RenderOf(interval, sz, sx, sy, output)
    /\ pc \in ShownPcs
         => /\ LabelCount(term.screen, "Output:") = 1
            /\ LabelCount(term.screen, "Interval: s") = 1
            /\ LabelCount(term.screen, QUIT_MSG) = 1

C12_Witness ==
    /\ pc = "start_timer" /\ spawns = 2 /\ interval = 1
    /\ output.stdout = <<>> /\ output.stderr = <<32, 97, 10>>
    /\ frame = RenderOf(1, <<80, 24>>, <<80, 24>>, <<80, 24>>, output)
    /\ term.screen = Tail(frame)

\* C13 as claimed: the final render holds the body of the frame of the current
\* cycle: the Output block, the StdErr block if there is one, and the footer
\* hint.
C13_FinalRenderHasFrameBody ==
    pc \in {"final_flush", "restore", "disable_raw"}
        => /\ BodyOf(final) = BodyOf(frame)
           /\ HasLabel(final, QUIT_MSG)

\* C13 as amended: the final render starts by leaving the alternate screen, so
\* that all of it is drawn on the normal screen; no child is spawned from the
\* cancel key to the return; its body is the body of the frame of the current
\* cycle without the footer hint, the Output block and the StdErr block being
\* the trimmed text captured from the most recent child; and it has no footer
\* hint.
C13_FinalRenderOnNormalScreen ==
    /\ [][ (pc \in FinalPcs)
             => spawns' = spawns /\ (output' = output \/ output' = NoOutput) ]_vars
    /\ [](pc \in {"final_stderr", "final_flush", "restore", "disable_raw"}
            => /\ final[1] = Cmd("LeaveAlternateScreen")
               /\ \A i \in 2..Len(final) : final[i].op # "EnterAlternateScreen"
               /\ BlockOf(final, "Output:") = Trim(Utf8Decode(output.stdout)))
    /\ [](pc \in {"final_flush", "restore", "disable_raw"}
            => /\ BodyOf(final) = SubSeq(BodyOf(frame), 1, Len(BodyOf(frame)) - 2)
               /\ HasLabel(final, "StdErr:") <=> HasLabel(frame, "StdErr:")
               /\ HasLabel(final, "StdErr:")
                    => BlockOf(final, "StdErr:") = Trim(Utf8Decode(output.stderr))
               /\ ~HasLabel(final, QUIT_MSG))
    /\ [](pc \in {"restore", "disable_raw"}
            => /\ ~term.alt
               /\ LabelCount(term.screen, "Output:") = 1
               /\ HasLabel(term.screen, "StdErr:") <=> HasLabel(final, "StdErr:")
               /\ ~HasLabel(term.screen, QUIT_MSG)
               /\ Len(term.screen) >= Len(final) - 1)

C13_Witness ==
    /\ pc = "restore" /\ ~term.alt /\ spawns = 1
    /\ output.stderr = <<32, 97, 10>>
    /\ BlockOf(term.screen, "StdErr:") = <<97>>
    /\ HasLabel(frame, QUIT_MSG) /\ ~HasLabel(term.screen, QUIT_MSG)

\* C14: input events are polled and read in the wait only: before the wait of
\* an iteration no event has been read and no poll is armed, an unread event is
\* taken by read() and by nothing else, the execution of the child gives its
\* result whatever is unread and leaves it unread, and a cancellation begins at
\* read() and nowhere else.
C14_EventsReadOnlyInWait ==
    /\ [](pc \in BeforeFlushPcs \cup {"start_timer", "enable_raw", "enter"}
            => lastEvent = NoEvent /\ ~cancelRead /\ timeout = 0 /\ deadline = 0)
    /\ [][ (pending' < pending) => pc = "read" /\ pending' = pending - 1 ]_vars
    /\ [][ (lastEvent' # lastEvent /\ lastEvent' # NoEvent) => pc = "read" ]_vars
    /\ [][ (pc = "execute" /\ pc' # pc)
             => /\ pending' = pending
                /\ pc' = "check" \/ (pc' = "done" /\ ret' = Err("spawn", 0)) ]_vars
    /\ [][ (~cancelRead /\ cancelRead') => pc = "read" ]_vars
    /\ [][ (pc' \in FinalPcs) => pc \in FinalPcs \cup {"read"} ]_vars
    /\ []((pc = "done" /\ ret.kind = "Ok") => cancelRead)

C14_Witness ==
    /\ pc = "check" /\ spawns = 1 /\ pending = 1
    /\ StatusSuccess(output) /\ ~cancelRead /\ lastEvent = NoEvent

\* C15: the wait is left for the next iteration only once the whole interval
\* has passed since the timer was started, and a run in which every child ends
\* with status 0, no I/O error occurs and no cancel key arrives never ends: a
\* run that has ended had a child that failed, an I/O error, or an input event
\* that may have been a cancel key.  (Stated as claimed; the code also ends by
\* the panics of lib.rs:67, 84-86, 108 and 118.)
C15_LoopsUntilCancelled ==
    /\ (pc = "header" /\ spawns >= 1) => elapsed >= interval /\ ~cancelRead
    /\ pc = "done"
         => \/ ret.cause \in {"exit", "signal"}
            \/ ret.cause \in {"io", "spawn", "size"}
            \/ cancelRead \/ pending > 0

\* C16: a child whose status is not success, with an exit code or without one,
\* ends watch() with an error value returned to the caller.  (Stated as
\* claimed; for a child with no exit code the code panics in unwrap().)
C16_UnsuccessfulStatusReturnsError ==
    (pc = "done" /\ ret.cause \in {"exit", "signal"})
        => ret.kind = "Err" /\ exitStatus = 1

\* C17: with interval 0 the loop never polls and never reads: no position of
\* the wait after its test and none of the final render is reached, no event is
\* read, no cancel key is consumed, an unread event stays unread, and a run
\* that ends has ended with an error or a panic and a non-zero status.
C17_IntervalZeroNeverPolls ==
    interval = 0
        => /\ pc \notin {"poll_arg", "poll", "read"} \cup FinalPcs
           /\ lastEvent = NoEvent /\ ~cancelRead
           /\ timeout = 0 /\ deadline = 0
           /\ finalFlushes = 0
           /\ pc = "done" => ret.kind \in {"Err", "panic"} /\ exitStatus # 0

C17_Witness ==
    /\ interval = 0 /\ pc = "check" /\ spawns = 2 /\ pending = 1
    /\ StatusSuccess(output) /\ ~cancelRead

\* C18: no run ends by a 16-bit subtraction that underflows, and every column
\* and row queued by a frame lies on a terminal of one of the sizes reported.
\* (Stated as claimed; on a terminal narrower than the text or with no rows the
\* subtraction panics in a build with overflow checks and wraps in one without.)
C18_PositionsStayOnScreen ==
    /\ pc = "done" => ret # Panic("overflow")
    /\ \A i \in 1..Len(frame) :
          frame[i].op \in {"MoveTo", "MoveToColumn"}
              => \E sz \in TermSizes : frame[i].x < sz[1] /\ frame[i].y <= sz[2]

\* C19: the time handed to poll is never negative and no run ends by the
\* subtraction of lib.rs:118.  (Stated as claimed; when the clock passes the
\* interval between the loop test and the second reading of elapsed the
\* subtraction panics.)
C19_RemainingTimeNeverNegative ==
    /\ pc = "poll" => timeout >= 0 /\ timeout <= interval
    /\ pc = "done" => ret # Panic("duration")

====
